---- MODULE Spec2Model ----
(***************************************************************************)
(* Model of src/app.py, the Streamlit dashboard of marathon shoe-brand     *)
(* rankings.  One script run (a "rerun") is one action: it calls the       *)
(* cached load_data(), reads the widget values and renders one page, up to *)
(* the statement that ends the run.  The two helper functions that build   *)
(* the reports, and get_trend_icon, are also applied on their own.         *)
(*                                                                         *)
(* Numbers.  The share of a record is the decimal literal of the file,     *)
(* kept as its number of hundredths (share = 7 is 0.07).  A float is an    *)
(* IEEE-754 double, kept as sign, mantissa and binary exponent; every      *)
(* float operation gives the double nearest to the exact result, ties to   *)
(* even.  The mantissa and the exact results are natural numbers of any    *)
(* size, kept as sequences of digits.                                      *)
(*                                                                         *)
(* Frames.  A frame is the sequence of its rows; a run keeps its frames    *)
(* as objects, so that a statement that changes a frame in place changes   *)
(* every variable bound to that object.                                    *)
(*                                                                         *)
(* Plotly and streamlit.  A plotly Figure has no method update_yaxis or    *)
(* update_xaxis (the methods are update_yaxes and update_xaxes), so each   *)
(* call of them raises AttributeError; st.multiselect raises               *)
(* StreamlitAPIException when a default value is not among the options;    *)
(* st.cache_data stores a returned value, never an exception.  An outcome  *)
(* is "ok" or the exception and the line that raised it.                   *)
(***************************************************************************)
EXTENDS Integers, Sequences, FiniteSets, TLC

\* Largest number of records drawn freely into an input file.
MaxRows == 2

\* df['share_pct'] = df['share'] * 100
ShareScale == 100

VARIABLES
    file,           \* data/marathon_shoe_data.json as it is on disk
    cache,          \* st.cache_data store of load_data: <<>> or <<value>>
    load_count,     \* number of executions of the body of load_data
    df,             \* script global df at the end of the last run
    brands_info,    \* script global brands_info at the end of the last run
    page,           \* page rendered by the last run
    selected_brands,\* value of the brand multiselect (comparison page)
    cohort_filter,  \* value of the cohort selectbox
    event_filter,   \* value of the event selectbox
    outcome,        \* "ok" or the exception that ended the last run
    radar_data,     \* comparison page: radar_data
    report,         \* the list generate_comparison_report returned
    analysis,       \* the list generate_brand_analysis returned
    metrics,        \* Jordan page: the four metric cards
    texts,          \* what get_trend_icon returned
    browse,         \* data-browse page: the values of its five widgets
    filtered_df,    \* filtered_df at the end of the last run
    store,          \* the frame objects of the last run and their names
    call            \* the helper function applied last, outside a run

vars == <<file, cache, load_count, df, brands_info, page, selected_brands,
          cohort_filter, event_filter, outcome, radar_data, report, analysis,
          metrics, texts, browse, filtered_df, store, call>>

----------------------------------------------------------------------------
(* Names used by the code.  The module is ASCII: the Chinese literals of   *)
(* the source are written by their meaning, the labels of a brand type in  *)
(* pinyin.                                                                 *)

\* The selectbox entry "all" (lines 136, 350, 352): no restriction.
ALL == "all"
\* The brand of the Jordan page (lines 214, 355, 459).
JORDAN == "Jordan"
\* The other two default brands of the comparison page (line 646).
XTEP == "Xtep"
NIKE == "Nike"
\* The two cohorts of the cohort selectboxes (line 352).
SUB3 == "sub3"
EVERYONE == "everyone"
\* A record without the key brand_type.
Absent == "<absent>"

----------------------------------------------------------------------------
(* Sequences *)

\* The elements of a sequence.
Range(s) == {s[i] : i \in 1..Len(s)}

\* Series.sum() of a sequence of integers.
RECURSIVE Sum(_)
Sum(s) == IF s = <<>> THEN 0 ELSE Head(s) + Sum(Tail(s))

\* Series.min() of a non-empty sequence of integers.
MinOf(s) == CHOOSE x \in Range(s) : \A y \in Range(s) : x <= y

\* Series.max() of a non-empty sequence of integers.
MaxOf(s) == CHOOSE x \in Range(s) : \A y \in Range(s) : x >= y

\* Series.unique(): the distinct values in order of first appearance.
RECURSIVE Unique(_)
Unique(s) ==
    IF s = <<>> THEN <<>>
    ELSE LET r == Unique(SubSeq(s, 1, Len(s) - 1))
             x == s[Len(s)]
         IN  IF x \in Range(r) THEN r ELSE Append(r, x)

\* The sequences over S of length lo..hi.
SeqsBetween(S, lo, hi) == UNION {[1..n -> S] : n \in lo..hi}

\* The column col of a frame, as a sequence.
Col(d, col) == [i \in 1..Len(d) |-> d[i][col]]

----------------------------------------------------------------------------
(* Natural numbers of any size: the sequence of the digits in base 2^14,  *)
(* lowest first, without a zero as highest digit; <<>> is zero.            *)

Base == 2^14

\* The digits of the integer k >= 0.
RECURSIVE NatOf(_)
NatOf(k) == IF k = 0 THEN <<>> ELSE <<k % Base>> \o NatOf(k \div Base)

\* a without zeros as highest digits.
RECURSIVE Trim(_)
Trim(a) ==
    IF a = <<>> THEN <<>>
    ELSE IF a[Len(a)] = 0 THEN Trim(SubSeq(a, 1, Len(a) - 1))
    ELSE a

\* The digit i of a, 0 beyond its length.
Digit(a, i) == IF i <= Len(a) THEN a[i] ELSE 0

\* a + b, digit by digit from digit i on with a carry.
NatAdd(a, b) ==
    LET RECURSIVE From(_, _)
        From(i, carry) ==
            IF i > Len(a) /\ i > Len(b) THEN (IF carry = 0 THEN <<>> ELSE <<carry>>)
            ELSE LET s == Digit(a, i) + Digit(b, i) + carry
                 IN  <<s % Base>> \o From(i + 1, s \div Base)
    IN  From(1, 0)

\* a - b for a >= b, digit by digit from digit i on with a borrow.
NatSub(a, b) ==
    LET RECURSIVE From(_, _)
        From(i, borrow) ==
            IF i > Len(a) THEN <<>>
            ELSE LET s == a[i] - Digit(b, i) - borrow
                 IN  IF s < 0 THEN <<s + Base>> \o From(i + 1, 1)
                     ELSE <<s>> \o From(i + 1, 0)
    IN  Trim(From(1, 0))

\* -1, 0 or 1 as a is below, equal to or above b: the longer one is the
\* larger, and of two of one length the one with the larger digit at the
\* highest place where they differ.
NatCmp(a, b) ==
    LET RECURSIVE At(_)
        At(i) ==
            IF i = 0 THEN 0
            ELSE IF a[i] < b[i] THEN -1
            ELSE IF a[i] > b[i] THEN 1
            ELSE At(i - 1)
    IN  IF Len(a) < Len(b) THEN -1
        ELSE IF Len(a) > Len(b) THEN 1
        ELSE At(Len(a))

\* a * k for one digit k, digit by digit from digit i on with a carry.
NatMulDigit(a, k) ==
    LET RECURSIVE From(_, _)
        From(i, carry) ==
            IF i > Len(a) THEN NatOf(carry)
            ELSE LET p == a[i] * k + carry
                 IN  <<p % Base>> \o From(i + 1, p \div Base)
    IN  IF k = 0 THEN <<>> ELSE From(1, 0)

\* a * Base^n
ShiftDigits(a, n) == IF a = <<>> THEN <<>> ELSE [i \in 1..n |-> 0] \o a

\* a * b
RECURSIVE NatMul(_, _)
NatMul(a, b) ==
    IF a = <<>> \/ b = <<>> THEN <<>>
    ELSE NatAdd(NatMulDigit(a, Head(b)), ShiftDigits(NatMul(a, Tail(b)), 1))

\* The number of binary digits of a: 14 for each digit but the highest,
\* and those of the highest.
BitLen(a) ==
    LET RECURSIVE OfInt(_)
        OfInt(k) == IF k = 0 THEN 0 ELSE 1 + OfInt(k \div 2)
    IN  IF a = <<>> THEN 0 ELSE 14 * (Len(a) - 1) + OfInt(a[Len(a)])

\* The binary digit i of a, counted from 0.
Bit(a, i) == (Digit(a, (i \div 14) + 1) \div 2^(i % 14)) % 2

\* The quotient q of a by the integer k, 0 < k < 2^16, and whether the
\* division is exact: from digit i of a downwards with the remainder r of
\* the digits above.
NatDivSmall(a, k) ==
    LET RECURSIVE At(_, _)
        At(i, r) ==
            IF i = 0 THEN [q |-> <<>>, exact |-> r = 0]
            ELSE LET cur == r * Base + a[i]
                     rest == At(i - 1, cur % k)
                 IN  [q |-> Append(rest.q, cur \div k), exact |-> rest.exact]
        d == At(Len(a), 0)
    IN  [q |-> Trim(d.q), exact |-> d.exact]

\* The quotient q of a by b > 0, and whether the division is exact: long
\* division from digit i of a downwards with the remainder r of the digits
\* above; Quot is the largest digit d in lo..hi with b * d <= r.
NatDiv(a, b) ==
    LET RECURSIVE Quot(_, _, _)
        Quot(r, lo, hi) ==
            IF lo = hi THEN lo
            ELSE LET mid == (lo + hi + 1) \div 2
                 IN  IF NatCmp(NatMulDigit(b, mid), r) <= 0
                     THEN Quot(r, mid, hi)
                     ELSE Quot(r, lo, mid - 1)
        RECURSIVE At(_, _)
        At(i, r) ==
            IF i = 0 THEN [q |-> <<>>, exact |-> r = <<>>]
            ELSE LET cur == Trim(<<a[i]>> \o r)
                     d == Quot(cur, 0, Base - 1)
                     rest == At(i - 1, NatSub(cur, NatMulDigit(b, d)))
                 IN  [q |-> Append(rest.q, d), exact |-> rest.exact]
    IN  IF Len(b) = 1 \/ (Len(b) = 2 /\ b[2] < 4)
        THEN NatDivSmall(a, b[1] + Base * Digit(b, 2))
        ELSE LET d == At(Len(a), <<>>)
             IN  [q |-> Trim(d.q), exact |-> d.exact]

\* a * 2^n
ShiftLeft(a, n) == ShiftDigits(NatMulDigit(a, 2^(n % 14)), n \div 14)

\* floor(a / 2^n)
ShiftRight(a, n) ==
    IF n \div 14 >= Len(a) THEN <<>>
    ELSE LET top == SubSeq(a, (n \div 14) + 1, Len(a))
         IN  NatDivSmall(top, 2^(n % 14)).q

\* The n lowest binary digits of a are all 0.
LowBitsZero(a, n) ==
    /\ \A i \in 1..(n \div 14) : Digit(a, i) = 0
    /\ Digit(a, (n \div 14) + 1) % 2^(n % 14) = 0

\* The number of zeros that end the binary digits of a > 0.
RECURSIVE TrailingZeros(_)
TrailingZeros(a) ==
    IF a[1] = 0 THEN 14 + TrailingZeros(Tail(a))
    ELSE IF a[1] % 2 = 1 THEN 0
    ELSE 1 + TrailingZeros(<<a[1] \div 2>>)

\* a / 2^drop + (something between 0 and 1 when sticky) rounded to the
\* nearest natural number, a tie going to the even one.
RoundHalfEven(a, drop, sticky) ==
    IF drop = 0 THEN a
    ELSE LET q == ShiftRight(a, drop)
             half == Bit(a, drop - 1) = 1
             more == sticky \/ ~LowBitsZero(a, drop - 1)
         IN  IF half /\ (more \/ Bit(q, 0) = 1) THEN NatAdd(q, <<1>>) ELSE q

----------------------------------------------------------------------------
(* Floats.  A float is an IEEE-754 double: NaN, or [s, m, e] for the      *)
(* number s * m * 2^e with s the sign 1 or -1, m a natural number below   *)
(* 2^53 and odd, or zero ([s, <<>>, 0], the two zeros of IEEE-754).  The  *)
(* exponent is not bounded: no value of the program is near the largest   *)
(* or the smallest double.                                                *)

NaN == [s |-> 0, m |-> <<>>, e |-> 0]

IsNaN(x) == x.s = 0

IsZero(x) == x.s # 0 /\ x.m = <<>>

\* The float s * m * 2^e for m below 2^53: m is made odd.
Float(s, m, e) ==
    IF m = <<>> THEN [s |-> s, m |-> <<>>, e |-> 0]
    ELSE LET z == TrailingZeros(m)
         IN  [s |-> s, m |-> ShiftRight(m, z), e |-> e + z]

\* The double nearest to s * (m + t) * 2^e, where t is 0, or some number
\* between 0 and 1 when sticky; ties go to the even mantissa.  With sticky,
\* m has more than 53 binary digits.
Round(s, m, e, sticky) ==
    IF BitLen(m) <= 53 THEN Float(s, m, e)
    ELSE LET drop == BitLen(m) - 53
         IN  Float(s, RoundHalfEven(m, drop, sticky), e + drop)

\* The float of an integer.
Whole(k) == Float(IF k < 0 THEN -1 ELSE 1, NatOf(IF k < 0 THEN -k ELSE k), 0)

\* -1, 0 or 1 as |x| is below, equal to or above |y|.
MagCmp(x, y) ==
    IF x.m = <<>> \/ y.m = <<>>
    THEN (IF x.m = y.m THEN 0 ELSE IF x.m = <<>> THEN -1 ELSE 1)
    ELSE IF BitLen(x.m) + x.e < BitLen(y.m) + y.e THEN -1
    ELSE IF BitLen(x.m) + x.e > BitLen(y.m) + y.e THEN 1
    ELSE IF x.e >= y.e THEN NatCmp(ShiftLeft(x.m, x.e - y.e), y.m)
    ELSE NatCmp(x.m, ShiftLeft(y.m, y.e - x.e))

\* x + y
FAdd(x, y) ==
    IF IsNaN(x) \/ IsNaN(y) THEN NaN
    ELSE IF IsZero(x) /\ IsZero(y) THEN (IF x.s = y.s THEN x ELSE Whole(0))
    ELSE IF IsZero(x) THEN y
    ELSE IF IsZero(y) THEN x
    ELSE LET e == IF x.e < y.e THEN x.e ELSE y.e
             a == ShiftLeft(x.m, x.e - e)
             b == ShiftLeft(y.m, y.e - e)
         IN  IF x.s = y.s THEN Round(x.s, NatAdd(a, b), e, FALSE)
             ELSE IF NatCmp(a, b) = 0 THEN Whole(0)
             ELSE IF NatCmp(a, b) > 0 THEN Round(x.s, NatSub(a, b), e, FALSE)
             ELSE Round(y.s, NatSub(b, a), e, FALSE)

\* -x
FNeg(x) == [x EXCEPT !.s = -x.s]

\* x - y
FSub(x, y) == FAdd(x, FNeg(y))

\* x * k for an integer k
Times(x, k) ==
    IF IsNaN(x) THEN NaN
    ELSE Round(IF k < 0 THEN -x.s ELSE x.s,
               NatMul(x.m, NatOf(IF k < 0 THEN -k ELSE k)), x.e, FALSE)

\* x / k for an integer k # 0: the quotient is taken to 55 binary digits
\* or more, and what is left over is the sticky part.
Over(x, k) ==
    IF IsNaN(x) \/ k = 0 THEN NaN
    ELSE IF IsZero(x) THEN [x EXCEPT !.s = IF k < 0 THEN -x.s ELSE x.s]
    ELSE LET d == NatOf(IF k < 0 THEN -k ELSE k)
             t == 55 + BitLen(d)
             q == NatDiv(ShiftLeft(x.m, t), d)
         IN  Round(IF k < 0 THEN -x.s ELSE x.s, q.q, x.e - t, ~q.exact)

\* x < y as Python compares floats: False when either is NaN.
Lt(x, y) ==
    /\ ~IsNaN(x) /\ ~IsNaN(y)
    /\ ~(IsZero(x) /\ IsZero(y))
    /\ IF x.s # y.s THEN x.s < y.s
       ELSE IF x.s = 1 THEN MagCmp(x, y) < 0
       ELSE MagCmp(x, y) > 0

\* x > y
Gt(x, y) == Lt(y, x)

\* x == y as Python compares floats: False when either is NaN.
Eq(x, y) == ~IsNaN(x) /\ ~IsNaN(y) /\ ~Lt(x, y) /\ ~Lt(y, x)

\* numpy.rint(x): the nearest integer, a tie going to the even one.
RInt(x) ==
    IF IsNaN(x) \/ IsZero(x) \/ x.e >= 0 THEN x
    ELSE Float(x.s, RoundHalfEven(x.m, -x.e, FALSE), 0)

\* Series.round(1): numpy multiplies by 10, takes rint and divides by 10.
Round1(x) == Over(RInt(Times(x, 10)), 10)

\* The double of the decimal literal n/d, as json.load reads it: the
\* double nearest to the fraction.
Literal(n, d) == Over(Whole(n), d)

\* Series.mean() of a sequence of integers: the sum, exact in a double,
\* over the count; NaN for an empty one.
Mean(s) == IF s = <<>> THEN NaN ELSE Over(Whole(Sum(s)), Len(s))

\* The sum of a sequence of floats, added from left to right (numpy adds
\* fewer than eight values in this order).
RECURSIVE FSum(_)
FSum(s) ==
    IF s = <<>> THEN Whole(0)
    ELSE FAdd(FSum(SubSeq(s, 1, Len(s) - 1)), s[Len(s)])

\* Series.mean() of a sequence of floats: NaN for an empty one.
FMean(s) == IF s = <<>> THEN NaN ELSE Over(FSum(s), Len(s))

\* The running state of pandas' group_mean after the values of s: Kahan
\* summation, y = val - c; t = sum + y; c = (t - sum) - y; sum = t.
RECURSIVE KahanSum(_)
KahanSum(s) ==
    IF s = <<>> THEN [sum |-> Whole(0), c |-> Whole(0)]
    ELSE LET before == KahanSum(SubSeq(s, 1, Len(s) - 1))
             y == FSub(s[Len(s)], before.c)
             t == FAdd(before.sum, y)
         IN  [sum |-> t, c |-> FSub(FSub(t, before.sum), y)]

\* groupby(...).mean() of the floats of one group.
GroupMean(s) == IF s = <<>> THEN NaN ELSE Over(KahanSum(s).sum, Len(s))

----------------------------------------------------------------------------
(* The input file and load_data *)

\* A record of data['records'] (spec section 6); brand_type is Absent when
\* the record has no such key.
Record(y, e, c, b, r, s, t) ==
    [year |-> y, event |-> e, cohort |-> c, brand |-> b, rank |-> r,
     share |-> s, brand_type |-> t]

\* The file on disk: it is there or not, it parses as JSON or not, and the
\* object it holds has some of the keys "records" and "brands".
FileOf(state, keys, records) ==
    [state |-> state, keys |-> keys, records |-> records]

\* A well-formed file with the given records.
GoodFile(records) == FileOf("present", {"records", "brands"}, records)

\* data['brands']: brand name -> type.  The files of this model know
\* Jordan and Nike; Xtep is a brand they have no entry for.
BrandsOfFile ==
    [b \in {JORDAN, NIKE} |->
        IF b = NIKE THEN "international" ELSE "domestic"]

\* pd.DataFrame(data['records']): a column exists when some record has the
\* key.  year, event, cohort, brand, rank and share are in every record.
HasColumn(d, col) ==
    IF col = "brand_type" THEN \E i \in 1..Len(d) : d[i].brand_type # Absent
    ELSE d # <<>>

\* df['share_pct'] = df['share'] * 100: the double of the literal, times
\* 100, rounded (0.07 * 100 is 7.000000000000001).
SharePct(share) == Times(Literal(share, ShareScale), 100)

\* How the body of load_data ends for the file f: open (71), json.load
\* (72), data['records'] (73), df['share'] on a frame that has no column
\* when there is no record (74), data['brands'] (75).
LoadOutcome(f) ==
    IF f.state = "missing" THEN "FileNotFoundError@71"
    ELSE IF f.state = "malformed" THEN "JSONDecodeError@72"
    ELSE IF "records" \notin f.keys THEN "KeyError@73"
    ELSE IF ~HasColumn(f.records, "share") THEN "KeyError@74"
    ELSE IF "brands" \notin f.keys THEN "KeyError@75"
    ELSE "ok"

\* What the body of load_data returns when it returns: the frame of the
\* records with share_pct added, and the brands mapping of the file.
LoadBody(f) ==
    [df |-> [i \in 1..Len(f.records) |->
                [year |-> f.records[i].year, event |-> f.records[i].event,
                 cohort |-> f.records[i].cohort, brand |-> f.records[i].brand,
                 rank |-> f.records[i].rank, share |-> f.records[i].share,
                 brand_type |-> f.records[i].brand_type,
                 share_pct |-> SharePct(f.records[i].share)]],
     brands_info |-> BrandsOfFile]

----------------------------------------------------------------------------
(* Frames *)

\* frame[frame[col] == v]
WhereEq(d, col, v) == SelectSeq(d, LAMBDA r : r[col] = v)

\* frame[frame[col].isin(S)]
WhereIn(d, col, S) == SelectSeq(d, LAMBDA r : r[col] \in S)

\* frame[col].nunique()
NUnique(d, col) == Cardinality(Range(Col(d, col)))

\* The cohort and event selectboxes applied to a frame (lines 136-139,
\* 666-669): ALL leaves the frame as it is.
FilterCohortEvent(d, cf, ef) ==
    LET a == IF cf # ALL THEN WhereEq(d, "cohort", cf) ELSE d
    IN  IF ef # ALL THEN WhereEq(a, "event", ef) ELSE a

\* The increasing sequence of the elements of a set of integers.
RECURSIVE SortedSeq(_)
SortedSeq(S) ==
    IF S = {} THEN <<>>
    ELSE LET m == CHOOSE x \in S : \A y \in S : x <= y
         IN  <<m>> \o SortedSeq(S \ {m})

\* frame.groupby('year').agg({'rank': 'mean', 'share_pct': 'mean'})
\* .reset_index(): one row per year, in increasing year.
YearlyMeans(d) ==
    LET ys == SortedSeq(Range(Col(d, "year")))
    IN  [i \in 1..Len(ys) |->
            [year |-> ys[i],
             rank |-> Mean(Col(WhereEq(d, "year", ys[i]), "rank")),
             share_pct |-> GroupMean(Col(WhereEq(d, "year", ys[i]), "share_pct"))]]

----------------------------------------------------------------------------
(* Frame objects.  A DataFrame is an object.  A statement makes a new one  *)
(* (frame[mask], frame[[columns]], frame.copy(), a groupby result) or      *)
(* changes one in place (frame[col] = ..., frame.columns = ...).  The     *)
(* store of a run holds the objects made so far, objs, and the object     *)
(* that each variable of the script is bound to, names.  It keeps the     *)
(* frames made from df by selection and copy and those changed in place;  *)
(* a groupby result that is only handed to plotly is not kept, nor is an  *)
(* object that no variable is bound to.                                   *)

\* The store before the first run.
NoStore == [objs |-> <<>>, names |-> <<>>]

\* df, brands_info = load_data(), line 78: st.cache_data hands every run
\* its own copy of the stored value, so the two globals are new objects.
Start(loaded) ==
    [objs |-> <<loaded.df, loaded.brands_info>>,
     names |-> [n \in {"df", "brands_info"} |-> IF n = "df" THEN 1 ELSE 2]]

\* A store whose df is the frame d, to apply the statements of a page to d.
OnFrame(d) == Start([df |-> d, brands_info |-> <<>>])

\* The value of the object a variable is bound to.
Value(st, name) == st.objs[st.names[name]]

\* name = <a new object holding value>.  An object that no variable is
\* bound to any more is freed, and the new object takes its place: that is
\* the old object of name when no other variable is bound to it.
Bind(st, name, value) ==
    IF /\ name \in DOMAIN st.names
       /\ \A n \in DOMAIN st.names \ {name} : st.names[n] # st.names[name]
    THEN [st EXCEPT !.objs[st.names[name]] = value]
    ELSE [objs |-> Append(st.objs, value),
          names |-> [n \in DOMAIN st.names \cup {name} |->
                        IF n = name THEN Len(st.objs) + 1 ELSE st.names[n]]]

\* to = from[mask]: boolean indexing makes a new frame of the rows of from
\* at which the boolean Series mask is True, in their order.
Indexing(st, to, from, mask) ==
    LET rows == Value(st, from)
        kept == SelectSeq([i \in 1..Len(rows) |-> i], LAMBDA i : mask[i])
    IN  Bind(st, to, [k \in 1..Len(kept) |-> rows[kept[k]]])

\* to = from[from[col].isin(S)], and with one value in S
\* to = from[from[col] == value].
Where(st, to, from, col, S) ==
    Indexing(st, to, from,
             [i \in DOMAIN Value(st, from) |-> Value(st, from)[i][col] \in S])

\* to = from.copy()
Copied(st, to, from) == Bind(st, to, Value(st, from))

\* to = from[[columns]]: a new frame of the given columns.
Columns(st, to, from, cols) ==
    Bind(st, to, [i \in 1..Len(Value(st, from)) |->
                     [c \in cols |-> Value(st, from)[i][c]]])

\* name[col] = values: the column col of the object of name is set, row
\* by row, to the Series values; the object is changed in place.
SetItem(st, name, col, values) ==
    LET old == Value(st, name)
    IN  [st EXCEPT !.objs[st.names[name]] =
            [i \in 1..Len(old) |->
                [c \in DOMAIN old[i] \cup {col} |->
                    IF c = col THEN values[i] ELSE old[i][c]]]]

\* name.columns = [...]: the column c of the object of name is from now on
\* called new[c]; the object is changed in place.
SetColumns(st, name, new) ==
    LET old == Value(st, name)
    IN  [st EXCEPT !.objs[st.names[name]] =
            [i \in 1..Len(old) |->
                [k \in {new[c] : c \in DOMAIN old[i]} |->
                    old[i][CHOOSE c \in DOMAIN old[i] : new[c] = k]]]]

\* The frame a variable holds at the end of a run, <<>> when the run made
\* no such variable.
FrameOf(st, name) == IF name \in DOMAIN st.names THEN Value(st, name) ELSE <<>>

----------------------------------------------------------------------------
(* generate_comparison_report *)

\* brands_info.get(brand, {}).get('type', 'unknown')
BrandTypeOf(binfo, brand) ==
    IF brand \in DOMAIN binfo THEN binfo[brand] ELSE "unknown"

\* brand_type_cn of line 162, which is also the mapping of lines 860-864
\* on the three options of the brand-type multiselect.
BrandTypeCn(brand_type) ==
    IF brand_type = "domestic" THEN "guochan"
    ELSE IF brand_type = "international" THEN "guoji"
    ELSE "qita"

\* if len(brand_df) == 0: continue (line 144)
SkipBrand(brand_df) == Len(brand_df) = 0

\* rank_trend and share_trend of the yearly means: first against last
\* year, and 0 for fewer than two years.
TrendOf(yearly) ==
    IF Len(yearly) >= 2
    THEN [rank_trend |-> FSub(yearly[1].rank, yearly[Len(yearly)].rank),
          share_trend |-> FSub(yearly[Len(yearly)].share_pct, yearly[1].share_pct)]
    ELSE [rank_trend |-> Whole(0), share_trend |-> Whole(0)]

\* The dict appended to brand_stats for a brand that has rows.
BrandStat(brand, brand_df, binfo) ==
    LET t == TrendOf(YearlyMeans(brand_df))
    IN  [brand |-> brand,
         brand_type |-> BrandTypeCn(BrandTypeOf(binfo, brand)),
         avg_rank |-> Mean(Col(brand_df, "rank")),
         avg_share |-> FMean(Col(brand_df, "share_pct")),
         best_rank |-> MinOf(Col(brand_df, "rank")),
         worst_rank |-> MaxOf(Col(brand_df, "rank")),
         rank_trend |-> t.rank_trend,
         share_trend |-> t.share_trend,
         data_points |-> Len(brand_df)]

\* The loop over selected_brands, in the order of the selection.
RECURSIVE BrandStats(_, _, _)
BrandStats(sel, filtered, binfo) ==
    IF sel = <<>> THEN <<>>
    ELSE LET brand_df == WhereEq(filtered, "brand", Head(sel))
             rest == BrandStats(Tail(sel), filtered, binfo)
         IN  IF SkipBrand(brand_df) THEN rest
             ELSE <<BrandStat(Head(sel), brand_df, binfo)>> \o rest

\* x put into a sequence sorted by avg_rank, after the entries that do not
\* compare greater (sorted() is stable).
RECURSIVE InsertByAvgRank(_, _)
InsertByAvgRank(s, x) ==
    IF s = <<>> THEN <<x>>
    ELSE IF Lt(x.avg_rank, s[Len(s)].avg_rank)
         THEN Append(InsertByAvgRank(SubSeq(s, 1, Len(s) - 1), x), s[Len(s)])
         ELSE Append(s, x)

\* Mutant of SortedByAvgRank: brand_stats is returned as it was built.
Unsorted(stats) == stats

\* sorted(brand_stats, key=lambda x: x['avg_rank'])
RECURSIVE SortedByAvgRank(_)
SortedByAvgRank(stats) ==
    IF stats = <<>> THEN <<>>
    ELSE InsertByAvgRank(SortedByAvgRank(SubSeq(stats, 1, Len(stats) - 1)),
                         stats[Len(stats)])

\* generate_comparison_report(selected_brands, df, cohort_filter,
\* event_filter), reading the global brands_info.
generate_comparison_report(sel, d, cf, ef, binfo) ==
    SortedByAvgRank(BrandStats(sel, FilterCohortEvent(d, cf, ef), binfo))

----------------------------------------------------------------------------
(* The comparison page up to line 688 *)

\* default_brands of the comparison page (line 646).
default_brands == <<JORDAN, XTEP, NIKE>>

\* st.multiselect(options=all_brands, default=default_brands) returns a
\* value when every default brand is an option, that is, has a record in
\* df; else it raises StreamlitAPIException (line 648).
DefaultsAreOptions(d) == Range(default_brands) \subseteq Range(Col(d, "brand"))

\* Lines 665-669: filtered_df is a copy of the rows of the selected
\* brands, then its rows of the cohort, then of the event.
CompareFilter(st, sel, cf, ef) ==
    LET a == Copied(Where(st, "filtered_df", "df", "brand", Range(sel)),
                    "filtered_df", "filtered_df")
        b == IF cf # ALL
             THEN Where(a, "filtered_df", "filtered_df", "cohort", {cf})
             ELSE a
    IN  IF ef # ALL
        THEN Where(b, "filtered_df", "filtered_df", "event", {ef})
        ELSE b

\* filtered_df of the comparison page on the frame d.
CompareFiltered(d, sel, cf, ef) ==
    Value(CompareFilter(OnFrame(d), sel, cf, ef), "filtered_df")

\* How a run of the comparison page ends: the multiselect raises (648);
\* with fewer than two brands the page shows a warning and the run goes on
\* to the footer; else filtered_df is built and fig.update_yaxis raises
\* (688), before radar_data (715) and the report (761).
CompareOutcome(d, sel) ==
    IF ~DefaultsAreOptions(d) THEN "StreamlitAPIException@648"
    ELSE IF Len(sel) < 2 THEN "ok"
    ELSE "AttributeError@688"

\* The frames of a run of the comparison page: filtered_df is made in the
\* else branch of line 661 only.
CompareRun(st, sel, cf, ef) ==
    IF CompareOutcome(Value(st, "df"), sel) = "AttributeError@688"
    THEN CompareFilter(st, sel, cf, ef)
    ELSE st

----------------------------------------------------------------------------
(* generate_brand_analysis *)

\* The permutations of 1..n.
Perms(n) == {f \in [1..n -> 1..n] : \A i, j \in 1..n : f[i] = f[j] => i = j}

\* cohort_df.sort_values('year'): the sort is pandas' default quicksort,
\* which keeps no order among rows of the same year, so every ordering of
\* the rows by increasing year is a possible result.
SortValuesYear(d) ==
    {[i \in 1..Len(d) |-> d[f[i]]] : f \in
        {g \in Perms(Len(d)) :
            \A i \in 1..Len(d) - 1 : d[g[i]].year <= d[g[i + 1]].year}}

\* frame.loc[frame['rank'].idxmin()]: the first row holding the least rank.
IdxMinRank(d) ==
    d[CHOOSE i \in 1..Len(d) :
        /\ d[i].rank = MinOf(Col(d, "rank"))
        /\ \A j \in 1..(i - 1) : d[j].rank # d[i].rank]

\* frame.loc[frame['rank'].idxmax()]: the first row holding the largest rank.
IdxMaxRank(d) ==
    d[CHOOSE i \in 1..Len(d) :
        /\ d[i].rank = MaxOf(Col(d, "rank"))
        /\ \A j \in 1..(i - 1) : d[j].rank # d[i].rank]

\* if len(cohort_df) < 2: continue
SkipCohort(cohort_df) == Len(cohort_df) < 2

\* The dict appended to analysis for a cohort, from its sorted rows.
AnalysisEntry(cohort, cohort_df) ==
    LET first_year == cohort_df[1]
        last_year == cohort_df[Len(cohort_df)]
        best_record == IdxMinRank(cohort_df)
        worst_record == IdxMaxRank(cohort_df)
    IN  [cohort |-> cohort,
         first_year |-> first_year.year,
         last_year |-> last_year.year,
         first_rank |-> first_year.rank,
         last_rank |-> last_year.rank,
         rank_change |-> first_year.rank - last_year.rank,
         first_share |-> first_year.share_pct,
         last_share |-> last_year.share_pct,
         share_change |-> FSub(last_year.share_pct, first_year.share_pct),
         best_year |-> best_record.year,
         best_rank |-> best_record.rank,
         best_event |-> best_record.event,
         worst_year |-> worst_record.year,
         worst_rank |-> worst_record.rank,
         worst_event |-> worst_record.event]

\* The loop over brand_df['cohort'].unique(): the possible lists analysis.
RECURSIVE AnalysesOver(_, _)
AnalysesOver(cohorts, brand_df) ==
    IF cohorts = <<>> THEN {<<>>}
    ELSE LET cohort == Head(cohorts)
             unsorted == WhereEq(brand_df, "cohort", cohort)
             rest == AnalysesOver(Tail(cohorts), brand_df)
         IN  IF SkipCohort(unsorted) THEN rest
             ELSE {<<AnalysisEntry(cohort, cohort_df)>> \o r :
                      cohort_df \in SortValuesYear(unsorted), r \in rest}

\* generate_brand_analysis(brand_df, brand_name): the set of lists it can
\* return.
generate_brand_analysis(brand_df) ==
    AnalysesOver(Unique(Col(brand_df, "cohort")), brand_df)

----------------------------------------------------------------------------
(* The Jordan page up to line 411 *)

\* Lines 355-359, the frames of a run of the Jordan page: jordan_df is a
\* copy of the rows of the brand, then its rows of the event, then of the
\* cohort.
JordanRun(st, ef, cf) ==
    LET a == Copied(Where(st, "jordan_df", "df", "brand", {JORDAN}),
                    "jordan_df", "jordan_df")
        b == IF ef # ALL
             THEN Where(a, "jordan_df", "jordan_df", "event", {ef})
             ELSE a
    IN  IF cf # ALL
        THEN Where(b, "jordan_df", "jordan_df", "cohort", {cf})
        ELSE b

\* jordan_df of the Jordan page on the frame d.
JordanFiltered(d, ef, cf) == Value(JordanRun(OnFrame(d), ef, cf), "jordan_df")

\* frame[frame['rank'] == v].iloc[0] of a frame that has such a row.
FirstWithRank(d, v) == WhereEq(d, "rank", v)[1]

\* The four metric cards of lines 366-390, for a jordan_df that has rows.
JordanMetrics(jordan_df) ==
    LET best_rank == MinOf(Col(jordan_df, "rank"))
        worst_rank == MaxOf(Col(jordan_df, "rank"))
    IN  [best_rank |-> best_rank,
         best_record |-> FirstWithRank(jordan_df, best_rank),
         worst_rank |-> worst_rank,
         worst_record |-> FirstWithRank(jordan_df, worst_rank),
         avg_rank |-> Mean(Col(jordan_df, "rank")),
         avg_share |-> FMean(Col(jordan_df, "share_pct"))]

\* How a run of the Jordan page ends.  On a jordan_df without rows min()
\* is NaN, no row equals it and .iloc[0] raises IndexError (line 368); else
\* the four cards are shown and fig.update_yaxis raises (line 411), before
\* generate_brand_analysis is called (459).
JordanOutcome(jordan_df) ==
    IF jordan_df = <<>> THEN "IndexError@368" ELSE "AttributeError@411"

----------------------------------------------------------------------------
(* The overview and category pages *)

\* The overview page (lines 206-338) indexes df['brand_type'] at line 233:
\* KeyError when no record has the key; else the cards are shown and
\* fig.update_yaxis raises at line 276.
OverviewOutcome(d) ==
    IF HasColumn(d, "brand_type") THEN "AttributeError@276" ELSE "KeyError@233"

\* The frames of a run of the overview page: the selections of lines
\* 214-216, and past line 233 domestic_2025 and the copy jordan_df of
\* line 262.
OverviewRun(st) ==
    LET a == Indexing(st, "jordan_latest", "df",
                      [i \in DOMAIN Value(st, "df") |->
                       LET r == Value(st, "df")[i]
                       IN  r.brand = JORDAN /\ r.year = 2025])
        b == Where(a, "jordan_sub3", "jordan_latest", "cohort", {SUB3})
        c == Where(b, "jordan_all", "jordan_latest", "cohort", {EVERYONE})
        d == Indexing(c, "domestic_2025", "df",
                      [i \in DOMAIN Value(c, "df") |->
                       LET r == Value(c, "df")[i]
                       IN  r.year = 2025 /\ r.brand_type = "domestic"])
    IN  IF OverviewOutcome(Value(st, "df")) = "KeyError@233" THEN c
        ELSE Copied(Where(d, "jordan_df", "df", "brand", {JORDAN}),
                    "jordan_df", "jordan_df")

\* The category page (lines 484-633) groups by 'brand_type' at line 505:
\* KeyError when no record has the key; else the cards are shown and
\* fig.update_xaxis raises at line 555.
TypeOutcome(d) ==
    IF HasColumn(d, "brand_type") THEN "AttributeError@555" ELSE "KeyError@505"

\* The values of brand_type in the order of the strings.
TypeOrder == <<"domestic", "international", "other">>

\* The sequences of a sequence, one after the other.
RECURSIVE Concat(_)
Concat(ss) == IF ss = <<>> THEN <<>> ELSE Head(ss) \o Concat(Tail(ss))

\* frame.groupby(['year', 'brand_type'])['share'].sum().reset_index(): a
\* row for each year and brand type that has rows, by increasing year and
\* within a year by brand type; a row without brand_type is in no group.
\* The sum of a group is taken the way pandas' group_sum does.
ShareSums(d) ==
    LET ys == SortedSeq(Range(Col(d, "year")))
        RowsOf(y, t) == SelectSeq(d, LAMBDA r : r.year = y /\ r.brand_type = t)
        SumOf(rows) ==
            KahanSum([i \in 1..Len(rows) |-> Literal(rows[i].share, ShareScale)]).sum
        OfYear(y) ==
            SelectSeq([j \in 1..Len(TypeOrder) |->
                          [year |-> y, brand_type |-> TypeOrder[j],
                           share |-> SumOf(RowsOf(y, TypeOrder[j]))]],
                      LAMBDA g : RowsOf(y, g.brand_type) # <<>>)
    IN  Concat([i \in 1..Len(ys) |-> OfYear(ys[i])])

\* The mapping of lines 508-511, on the two types that line 506 keeps.
TypeSummaryCn(brand_type) ==
    IF brand_type = "domestic" THEN "guochan pinpai" ELSE "guoji pinpai"

\* The frames of a run of the category page: filtered_df is a copy of df
\* (498), then its rows of the cohort and of the event; past line 505
\* type_summary is a groupby result, then its rows of the two types, and
\* gets two more columns in place (507-511); top10_domestic is a selection
\* of filtered_df (533).
TypeRun(st, cf, ef) ==
    LET Cohort(s) ==
            IF cf # ALL
            THEN Where(s, "filtered_df", "filtered_df", "cohort", {cf})
            ELSE s
        Event(s) ==
            IF ef # ALL
            THEN Where(s, "filtered_df", "filtered_df", "event", {ef})
            ELSE s
        Summary(s) == Bind(s, "type_summary", ShareSums(Value(s, "filtered_df")))
        TwoTypes(s) ==
            Where(s, "type_summary", "type_summary",
                  "brand_type", {"domestic", "international"})
        Pct(s) == SetItem(s, "type_summary", "share_pct",
                          [i \in DOMAIN Value(s, "type_summary") |->
                           LET r == Value(s, "type_summary")[i]
                           IN  Times(r.share, 100)])
        Cn(s) ==
            SetItem(s, "type_summary", "brand_type_cn",
                    [i \in DOMAIN Value(s, "type_summary") |->
                     LET r == Value(s, "type_summary")[i]
                     IN  TypeSummaryCn(r.brand_type)])
        Top10(s) ==
            Indexing(s, "top10_domestic", "filtered_df",
                     [i \in DOMAIN Value(s, "filtered_df") |->
                      LET r == Value(s, "filtered_df")[i]
                      IN  r.rank <= 10 /\ r.brand_type = "domestic"])
        filtered == Event(Cohort(Copied(st, "filtered_df", "df")))
    IN  IF TypeOutcome(Value(st, "df")) = "KeyError@505" THEN filtered
        ELSE Top10(Cn(Pct(TwoTypes(Summary(filtered)))))

----------------------------------------------------------------------------
(* Direction words.  "up", "down" and "flat" stand for the Chinese words   *)
(* of get_trend_icon; "growth" stands for the word of lines 477 and 805.   *)

\* get_trend_icon(change)[1], for a float.
get_trend_icon(change) ==
    IF Gt(change, Whole(0)) THEN "up"
    ELSE IF Lt(change, Whole(0)) THEN "down"
    ELSE "flat"

\* The rank-trend column of report_df (the lambda of lines 768-770).
RankTrendColumn(x) ==
    IF Gt(x, Whole(0)) THEN "up"
    ELSE IF Lt(x, Whole(0)) THEN "down"
    ELSE "flat"

\* The word before the number of ranks in an analysis box (line 475).
BoxRankWord(rank_change) == IF rank_change > 0 THEN "up" ELSE "down"

\* The word before the number of points in an analysis box (line 477).
BoxShareWord(share_change) ==
    IF Gt(share_change, Whole(0)) THEN "growth" ELSE "down"

\* The word before the share in a line of the summary (line 805).
SummaryShareWord(share_trend) ==
    IF Gt(share_trend, Whole(0)) THEN "growth" ELSE "down"

----------------------------------------------------------------------------
(* A script run *)

\* @st.cache_data on a function without arguments: the stored value is
\* returned when there is one.
CacheHit(c) == c # <<>>

\* load_data() returns in this run: from the store, or because its body
\* runs to its end.
LoadReturns == CacheHit(cache) \/ LoadOutcome(file) = "ok"

\* The value load_data() returns in a run where it returns.
Loaded == IF CacheHit(cache) THEN cache[1] ELSE LoadBody(file)

\* Largest number of executions of the body of load_data that is followed.
MaxLoads == 2

\* df, brands_info = load_data(): line 78, the first statement of every
\* run, in a run where the call returns.
CallLoadData ==
    /\ LoadReturns
    /\ CacheHit(cache) \/ load_count < MaxLoads
    /\ cache' = <<Loaded>>
    /\ load_count' = IF CacheHit(cache) THEN load_count ELSE load_count + 1
    /\ file' = file
    /\ call' = "none"

\* A run in which the body of load_data raises: nothing is stored, no
\* widget is drawn, and the run ends at line 78 with the exception.
LoadRaises ==
    /\ ~LoadReturns
    /\ load_count < MaxLoads
    /\ load_count' = load_count + 1
    /\ cache' = <<>>
    /\ file' = file
    /\ outcome' = LoadOutcome(file)
    /\ page' = "none"
    /\ df' = <<>> /\ brands_info' = <<>>
    /\ selected_brands' = <<>> /\ cohort_filter' = ALL /\ event_filter' = ALL
    /\ radar_data' = <<>> /\ report' = <<>> /\ analysis' = <<>> /\ metrics' = <<>>
    /\ texts' = <<>> /\ browse' = <<>> /\ filtered_df' = <<>>
    /\ store' = NoStore
    /\ call' = "none"

\* The end of a run whose frames are st: the globals df and brands_info
\* and the variable filtered_df hold what their objects hold by then.
EndOfRun(st) ==
    /\ store' = st
    /\ df' = Value(st, "df")
    /\ brands_info' = Value(st, "brands_info")
    /\ filtered_df' = FrameOf(st, "filtered_df")

\* The options of an event selectbox: ["all"] + list(df['event'].unique())
EventOptions(d) == {ALL} \cup Range(Col(d, "event"))

\* The options of a cohort selectbox (lines 352, 493, 657).
CohortOptions == {ALL, SUB3, EVERYONE}

\* A multiselect after one click: an entry removed, or an option appended
\* (at most max_selections = 5 entries).
max_selections == 5

Remove(s, i) == SubSeq(s, 1, i - 1) \o SubSeq(s, i + 1, Len(s))

MultiselectClicks(s, options) ==
    {Remove(s, i) : i \in 1..Len(s)}
    \cup {Append(s, b) : b \in {o \in options : o \notin Range(s) /\ Len(s) < max_selections}}

\* The overview page.
RenderOverview ==
    /\ CallLoadData
    /\ page' = "overview"
    /\ EndOfRun(OverviewRun(Start(Loaded)))
    /\ selected_brands' = <<>> /\ cohort_filter' = ALL /\ event_filter' = ALL
    /\ outcome' = OverviewOutcome(Loaded.df)
    /\ radar_data' = <<>> /\ report' = <<>> /\ analysis' = <<>> /\ metrics' = <<>>
    /\ texts' = <<>> /\ browse' = <<>>

\* The Jordan page with the event and cohort selectboxes at ef and cf: the
\* defaults on arrival, then one widget changed per run.  The run ends
\* before generate_brand_analysis and the analysis boxes.
RenderJordan(ef, cf) ==
    /\ IF page = "jordan"
       THEN ef = event_filter \/ cf = cohort_filter
       ELSE ef = ALL /\ cf = ALL
    /\ ef \in EventOptions(Loaded.df) /\ cf \in CohortOptions
    /\ CallLoadData
    /\ page' = "jordan"
    /\ selected_brands' = <<>> /\ cohort_filter' = cf /\ event_filter' = ef
    /\ radar_data' = <<>> /\ report' = <<>> /\ analysis' = <<>> /\ texts' = <<>>
    /\ browse' = <<>>
    /\ EndOfRun(JordanRun(Start(Loaded), ef, cf))
    /\ LET jordan_df == Value(JordanRun(Start(Loaded), ef, cf), "jordan_df")
       IN  /\ outcome' = JordanOutcome(jordan_df)
           /\ metrics' = IF jordan_df = <<>> THEN <<>>
                         ELSE <<JordanMetrics(jordan_df)>>

\* The category page; its cohort selectbox starts at sub3 (line 493).
RenderType(cf, ef) ==
    /\ IF page = "type"
       THEN ef = event_filter \/ cf = cohort_filter
       ELSE ef = ALL /\ cf = SUB3
    /\ ef \in EventOptions(Loaded.df) /\ cf \in CohortOptions
    /\ CallLoadData
    /\ page' = "type"
    /\ EndOfRun(TypeRun(Start(Loaded), cf, ef))
    /\ selected_brands' = <<>> /\ cohort_filter' = cf /\ event_filter' = ef
    /\ outcome' = TypeOutcome(Loaded.df)
    /\ radar_data' = <<>> /\ report' = <<>> /\ analysis' = <<>> /\ metrics' = <<>>
    /\ texts' = <<>> /\ browse' = <<>>

\* The values the brand multiselect can have in a run of the comparison
\* page on the frame d: none when it raises (written <<>>), default_brands
\* on arrival, then the value of the last run or one click away from it.
SelChoices(d) ==
    IF ~DefaultsAreOptions(d) THEN {<<>>}
    ELSE IF page = "compare"
         THEN {selected_brands}
              \cup MultiselectClicks(selected_brands, Range(Col(d, "brand")))
    ELSE {default_brands}

\* The comparison page with the brand multiselect at sel.  When the
\* multiselect raises, the two selectboxes below it are not drawn.  Neither
\* radar_data nor the report is ever built: a run with two brands or more
\* ends at line 688.
RenderCompare(sel, cf, ef) ==
    /\ sel \in SelChoices(Loaded.df)
    /\ IF ~DefaultsAreOptions(Loaded.df) THEN ef = ALL /\ cf = ALL
       ELSE IF page = "compare"
            THEN \/ sel = selected_brands /\ (ef = event_filter \/ cf = cohort_filter)
                 \/ ef = event_filter /\ cf = cohort_filter
       ELSE ef = ALL /\ cf = ALL
    /\ ef \in EventOptions(Loaded.df) /\ cf \in CohortOptions
    /\ CallLoadData
    /\ page' = "compare"
    /\ selected_brands' = sel /\ cohort_filter' = cf /\ event_filter' = ef
    /\ outcome' = CompareOutcome(Loaded.df, sel)
    /\ radar_data' = <<>> /\ report' = <<>> /\ texts' = <<>>
    /\ analysis' = <<>> /\ metrics' = <<>> /\ browse' = <<>>
    /\ EndOfRun(CompareRun(Start(Loaded), sel, cf, ef))

----------------------------------------------------------------------------
(* The data-browse page.  A multiselect value is kept as the set of its    *)
(* entries (isin does not read their order).                               *)
(*                                                                         *)
(* brand_search, the text of the search box, is kept as what lines 852 and *)
(* 853 make of it.  The text is empty (line 852 skips the search); or      *)
(* re.compile raises on it, which str.contains does before it reads a      *)
(* row; or it is a pattern, and str.contains(text, case=False) holds of a  *)
(* row when re.search finds the pattern, compiled with re.IGNORECASE, in   *)
(* the brand of that row.  The test reads the brand of the row and nothing *)
(* else, so a pattern is kept as the set of the brands of df it is found   *)
(* in.  Every set of brands is the set of some pattern (the brands of the  *)
(* set, escaped and joined by "|" between "^(" and ")$").                  *)

\* The search box is empty.
NoSearch == [kind |-> "empty", found |-> {}]

\* A text that re.compile raises on, such as "(" or "*".
BadSearch == [kind |-> "invalid", found |-> {}]

\* A pattern that re.search finds in the brands of S and in no other brand
\* of df.
Finds(S) == [kind |-> "pattern", found |-> S]

\* if brand_search: (line 852)
Truthy(search) == search.kind # "empty"

\* re.compile raises on the text.
SearchRaises(search) == search.kind = "invalid"

\* str.contains(brand_search, case=False) on the brand of one row.
SearchKeeps(search, brand) == brand \in search.found

\* The texts that can be typed, as the rows of the frame d tell them apart.
Searches(d) ==
    {NoSearch, BadSearch} \cup {Finds(S) : S \in SUBSET Range(Col(d, "brand"))}

\* The options of the brand-type multiselect (line 840).
BrandTypeOptions == {"domestic", "international", "other"}

\* The values of the five widgets when the page is first shown (lines
\* 834-840 and 851).
BrowseDefaults(d) ==
    [years |-> Range(Col(d, "year")),
     events |-> Range(Col(d, "event")),
     cohorts |-> Range(Col(d, "cohort")),
     types |-> {"domestic", "international"},
     search |-> NoSearch]

\* Mutant of BrowseMask: an empty multiselect restricts nothing.
BrowseMaskEmptyIsAll(r, w) ==
    /\ (w.years = {} \/ r.year \in w.years)
    /\ (w.events = {} \/ r.event \in w.events)
    /\ (w.cohorts = {} \/ r.cohort \in w.cohorts)
    /\ (w.types = {} \/ r.brand_type \in w.types)

\* The mask of lines 844-847 for a row; a row without brand_type holds NaN
\* there, which no multiselect entry equals.
BrowseMask(r, w) ==
    /\ r.year \in w.years
    /\ r.event \in w.events
    /\ r.cohort \in w.cohorts
    /\ r.brand_type \in w.types

\* Lines 843-848: filtered_df is a copy of the rows of df under the mask.
BrowseMasked(st, w) ==
    Copied(Indexing(st, "filtered_df", "df",
                    [i \in DOMAIN Value(st, "df") |->
                     LET r == Value(st, "df")[i]
                     IN  BrowseMask(r, w)]),
           "filtered_df", "filtered_df")

\* Mutant of BrowseSearched: the search is run on df, not on the masked rows.
BrowseSearchedOnDf(st, w) ==
    IF Truthy(w.search)
    THEN Indexing(st, "filtered_df", "df",
                  [i \in DOMAIN Value(st, "df") |->
                   LET r == Value(st, "df")[i]
                   IN  SearchKeeps(w.search, r.brand)])
    ELSE st

\* Lines 852-853: when the search box is not empty, filtered_df becomes its
\* rows whose brand the text is found in.
BrowseSearched(st, w) ==
    IF Truthy(w.search)
    THEN Indexing(st, "filtered_df", "filtered_df",
                  [i \in DOMAIN Value(st, "filtered_df") |->
                   LET r == Value(st, "filtered_df")[i]
                   IN  SearchKeeps(w.search, r.brand)])
    ELSE st

\* filtered_df of lines 843-853 on the frame d, for a search text that
\* compiles.
BrowseFiltered(d, w) ==
    Value(BrowseSearched(BrowseMasked(OnFrame(d), w), w), "filtered_df")

\* The new names of the columns of display_df (line 859), by position.
DisplayColumns ==
    [year |-> "Year", event |-> "Event", cohort |-> "Cohort", rank |-> "Rank",
     brand |-> "Brand", brand_type |-> "Brand type", share_pct |-> "Share(%)"]

\* Mutant of BrowseTable: the rounding of line 865 is written to df.
BrowseTableOnDf(st) ==
    LET a == Copied(Columns(st, "display_df", "filtered_df", DOMAIN DisplayColumns),
                    "display_df", "display_df")
        b == SetColumns(a, "display_df", DisplayColumns)
        c == SetItem(b, "display_df", "Brand type",
                     [i \in DOMAIN Value(b, "display_df") |->
                      LET r == Value(b, "display_df")[i]
                      IN  IF r["Brand type"] \in BrandTypeOptions
                          THEN BrandTypeCn(r["Brand type"])
                          ELSE Absent])
        d == SetItem(c, "df", "share_pct",
                     [i \in DOMAIN Value(c, "df") |->
                      LET r == Value(c, "df")[i]
                      IN  Round1(r.share_pct)])
    IN  SetItem(d, "display_df", "Rank",
                [i \in DOMAIN Value(d, "display_df") |->
                 LET r == Value(d, "display_df")[i]
                 IN  r["Rank"]])

\* Lines 858-866: display_df is a copy of seven columns of filtered_df;
\* then, in place, its columns are renamed, its brand types mapped to
\* their labels (Series.map with a dict of the three types: NaN for any
\* other value), its shares rounded to one decimal and its ranks cast to
\* int, which they are.
BrowseTable(st) ==
    LET a == Copied(Columns(st, "display_df", "filtered_df", DOMAIN DisplayColumns),
                    "display_df", "display_df")
        b == SetColumns(a, "display_df", DisplayColumns)
        c == SetItem(b, "display_df", "Brand type",
                     [i \in DOMAIN Value(b, "display_df") |->
                      LET r == Value(b, "display_df")[i]
                      IN  IF r["Brand type"] \in BrandTypeOptions
                          THEN BrandTypeCn(r["Brand type"])
                          ELSE Absent])
        d == SetItem(c, "display_df", "Share(%)",
                     [i \in DOMAIN Value(c, "display_df") |->
                      LET r == Value(c, "display_df")[i]
                      IN  Round1(r["Share(%)"])])
    IN  SetItem(d, "display_df", "Rank",
                [i \in DOMAIN Value(d, "display_df") |->
                 LET r == Value(d, "display_df")[i]
                 IN  r["Rank"]])

\* How a run of the page ends: df['brand_type'] at line 847 raises KeyError
\* when no record has the key; str.contains at line 853 raises re.error
\* when the search box holds a text that does not compile; else the run
\* reaches the footer (the page draws a table and no chart).
BrowseOutcome(d, w) ==
    IF ~HasColumn(d, "brand_type") THEN "KeyError@847"
    ELSE IF SearchRaises(w.search) THEN "error@853"
    ELSE "ok"

\* The frames of a run of the page, up to the line that ends it.
BrowseRun(st, w) ==
    IF BrowseOutcome(Value(st, "df"), w) = "KeyError@847" THEN st
    ELSE IF BrowseOutcome(Value(st, "df"), w) = "error@853" THEN BrowseMasked(st, w)
    ELSE BrowseTable(BrowseSearched(BrowseMasked(st, w), w))

\* A set-valued widget after one click: an option added or an entry removed.
Toggles(S, options) == {S \cup {o} : o \in options} \cup {S \ {o} : o \in S}

\* The widget values one interaction away from w.  The search box is drawn
\* at line 851, after the mask: a run that ends at line 847 shows none.
BrowseClicks(w, d) ==
    {[w EXCEPT !.years = y] : y \in Toggles(w.years, Range(Col(d, "year")))}
    \cup {[w EXCEPT !.events = e] : e \in Toggles(w.events, Range(Col(d, "event")))}
    \cup {[w EXCEPT !.cohorts = c] : c \in Toggles(w.cohorts, Range(Col(d, "cohort")))}
    \cup {[w EXCEPT !.types = t] : t \in Toggles(w.types, BrandTypeOptions)}
    \cup {[w EXCEPT !.search = t] :
             t \in IF HasColumn(d, "brand_type") THEN Searches(d) ELSE {w.search}}

\* The widget values a run of the data-browse page can see: the defaults
\* on arrival, then one widget changed per run.
BrowseChoices(d) ==
    IF page = "browse" THEN BrowseClicks(browse, d) ELSE {BrowseDefaults(d)}

\* The data-browse page with its widgets at w.
RenderBrowse(w) ==
    /\ w \in BrowseChoices(Loaded.df)
    /\ CallLoadData
    /\ page' = "browse"
    /\ selected_brands' = <<>> /\ cohort_filter' = ALL /\ event_filter' = ALL
    /\ radar_data' = <<>> /\ report' = <<>> /\ analysis' = <<>> /\ metrics' = <<>>
    /\ texts' = <<>>
    /\ browse' = w
    /\ outcome' = BrowseOutcome(Loaded.df, w)
    /\ EndOfRun(BrowseRun(Start(Loaded), w))

----------------------------------------------------------------------------
(* The helper functions applied on their own, to a frame that load_data   *)
(* returned                                                                *)

\* report = generate_comparison_report(sel, df, cf, ef)
CallComparisonReport(sel, cf, ef) ==
    /\ report' = generate_comparison_report(sel, df, cf, ef, brands_info)
    /\ call' = "generate_comparison_report"
    /\ selected_brands' = sel /\ cohort_filter' = cf /\ event_filter' = ef
    /\ analysis' = <<>> /\ texts' = <<>>
    /\ UNCHANGED <<file, cache, load_count, df, brands_info, page, outcome,
                   radar_data, metrics, browse, filtered_df, store>>

\* analysis = generate_brand_analysis(df[df['brand'] == brand], brand)
CallBrandAnalysis(brand) ==
    /\ analysis' \in generate_brand_analysis(WhereEq(df, "brand", brand))
    /\ call' = "generate_brand_analysis"
    /\ selected_brands' = <<brand>> /\ cohort_filter' = ALL /\ event_filter' = ALL
    /\ report' = <<>> /\ texts' = <<>>
    /\ UNCHANGED <<file, cache, load_count, df, brands_info, page, outcome,
                   radar_data, metrics, browse, filtered_df, store>>

\* The values get_trend_icon is given at lines 462 and 804: the rank_change
\* of an item of analysis and the rank_trend of an item of the report.
TrendsAtHand ==
    {Whole(analysis[i].rank_change) : i \in 1..Len(analysis)}
    \cup {report[i].rank_trend : i \in 1..Len(report)}

\* trend_icon, trend_text, trend_color = get_trend_icon(change)
CallTrendIcon(change) ==
    /\ change \in TrendsAtHand
    /\ texts' = <<[change |-> change, trend_text |-> get_trend_icon(change)]>>
    /\ call' = "get_trend_icon"
    /\ UNCHANGED <<file, cache, load_count, df, brands_info, page,
                   selected_brands, cohort_filter, event_filter, outcome,
                   radar_data, report, analysis, metrics, browse, filtered_df,
                   store>>

----------------------------------------------------------------------------
(* Input files and specifications *)

Years == {2021, 2025}
Events == {"E1", "E2"}

\* The state before the first run, for a file drawn from Files.
InitWith(Files) ==
    /\ file \in Files
    /\ cache = <<>>
    /\ load_count = 0
    /\ df = <<>>
    /\ brands_info = <<>>
    /\ page = "none"
    /\ selected_brands = <<>>
    /\ cohort_filter = ALL
    /\ event_filter = ALL
    /\ outcome = "none"
    /\ radar_data = <<>>
    /\ report = <<>>
    /\ analysis = <<>>
    /\ metrics = <<>>
    /\ texts = <<>>
    /\ browse = <<>>
    /\ filtered_df = <<>>
    /\ store = NoStore
    /\ call = "none"

\* Four standings <<year, rank, share>>: two early and two late ones, with
\* a rank and a share that stay, a rank that gets better and one that gets
\* worse; 0.07 is a share whose hundredfold is not 7 in doubles.
Standings == {<<2021, 2, 7>>, <<2021, 1, 50>>, <<2025, 1, 50>>, <<2025, 30, 7>>}

\* The well-formed files with the records of R, at most MaxRows of them.
FilesOver(R) == {GoodFile(s) : s \in SeqsBetween(R, 1, MaxRows)}

\* One record of each default brand of the comparison page; Jordan and
\* Nike carry a brand_type, Xtep does not.
ThreeBrands ==
    <<Record(2021, "E1", SUB3, JORDAN, 2, 7, "domestic"),
      Record(2025, "E1", SUB3, XTEP, 1, 50, Absent),
      Record(2025, "E2", EVERYONE, NIKE, 3, 29, "international")>>

\* The file is rewritten on disk between two runs.
FileRewritten(f) ==
    /\ f # file
    /\ file' = f
    /\ UNCHANGED <<cache, load_count, df, brands_info, page, selected_brands,
                   cohort_filter, event_filter, outcome, radar_data, report,
                   analysis, metrics, texts, browse, filtered_df, store, call>>

(* The comparison page alone.  Every file holds the three default brands,
   without which the page shows nothing but the exception of line 648, and
   up to MaxRows more records of Jordan and Xtep. *)
CompareRecords ==
    {Record(2025, e, SUB3, b, 30, 7, Absent) : e \in Events, b \in {JORDAN, XTEP}}

CompareFiles ==
    {GoodFile(ThreeBrands \o s) : s \in SeqsBetween(CompareRecords, 0, MaxRows)}

InitCompare == InitWith(CompareFiles)

NextCompare ==
    \E sel \in SelChoices(Loaded.df),
       cf \in CohortOptions, ef \in EventOptions(Loaded.df) :
        RenderCompare(sel, cf, ef)

SpecCompare == InitCompare /\ [][NextCompare]_vars

(* The Jordan page alone.  Jordan has records in both cohorts, two events
   and the four standings, two of them with the same rank in different
   years; one record is of another brand. *)
JordanRecords ==
    {Record(st[1], e, c, JORDAN, st[2], st[3], Absent) :
        e \in Events, c \in {SUB3, EVERYONE}, st \in Standings}
    \cup {Record(2025, "E2", SUB3, XTEP, 1, 50, Absent)}

JordanFiles == FilesOver(JordanRecords)

InitJordan == InitWith(JordanFiles)

NextJordan ==
    \E cf \in CohortOptions, ef \in EventOptions(Loaded.df) : RenderJordan(ef, cf)

SpecJordan == InitJordan /\ [][NextJordan]_vars

(* The data-browse page alone.  Two records that differ in year, event,
   cohort, brand and brand type, so that each of the five widgets can keep
   one and drop the other; the type of the second is not among the
   defaults of the brand-type multiselect, and 0.07 is a share that the
   rounding of line 865 changes. *)
BrowseRecords ==
    {Record(2021, "E2", EVERYONE, JORDAN, 30, 7, "domestic"),
     Record(2025, "E1", SUB3, XTEP, 1, 50, "other")}

\* The files over these records, and two more: one whose record has no
\* brand_type key, and one where one record has it and the other has not.
BrowseFiles ==
    FilesOver(BrowseRecords)
    \cup {GoodFile(<<Record(2025, "E1", SUB3, XTEP, 1, 50, Absent)>>),
          GoodFile(<<Record(2021, "E2", EVERYONE, JORDAN, 30, 7, "domestic"),
                     Record(2025, "E1", SUB3, XTEP, 1, 50, Absent)>>)}

InitBrowse == InitWith(BrowseFiles)

NextBrowse == \E w \in BrowseChoices(Loaded.df) : RenderBrowse(w)

SpecBrowse == InitBrowse /\ [][NextBrowse]_vars

(* The whole application: every page, the file rewritten between runs, and
   files that load_data cannot load.  One record carries the key
   brand_type, the other does not; years, events and cohorts differ in the
   file of the three default brands. *)
AppRecords ==
    {Record(2021, "E2", EVERYONE, JORDAN, 1, 50, "domestic"),
     Record(2021, "E2", EVERYONE, XTEP, 30, 7, Absent)}

\* Files on which the body of load_data raises: no file, not JSON, no key
\* "records", no record, no key "brands".
BrokenFiles ==
    {FileOf("missing", {}, <<>>),
     FileOf("malformed", {}, <<>>),
     FileOf("present", {"brands"}, <<>>),
     FileOf("present", {"records", "brands"}, <<>>),
     FileOf("present", {"records"}, ThreeBrands)}

AppFiles == FilesOver(AppRecords) \cup {GoodFile(ThreeBrands)} \cup BrokenFiles

\* What the file is rewritten to: a file with one record, and one with none.
RewrittenFiles ==
    {GoodFile(<<Record(2021, "E2", EVERYONE, XTEP, 30, 7, Absent)>>),
     FileOf("present", {"records", "brands"}, <<>>)}

Init == InitWith(AppFiles)

Next ==
    \/ RenderOverview
    \/ \E cf \in CohortOptions, ef \in EventOptions(Loaded.df) : RenderJordan(ef, cf)
    \/ \E cf \in CohortOptions, ef \in EventOptions(Loaded.df) : RenderType(cf, ef)
    \/ \E sel \in SelChoices(Loaded.df),
          cf \in CohortOptions, ef \in EventOptions(Loaded.df) :
           RenderCompare(sel, cf, ef)
    \/ \E w \in BrowseChoices(Loaded.df) : RenderBrowse(w)
    \/ LoadRaises
    \/ \E f \in RewrittenFiles : FileRewritten(f)

Spec == Init /\ [][Next]_vars

(* The helper functions alone, applied to the frame of a loaded file.
   Jordan has records of the sub-3 cohort in the four standings and one in
   a second event, Xtep one record of the other cohort; one more file has
   two shares of one year whose mean, 7, is not the double of 0.07 * 100. *)
CallRecords ==
    {Record(st[1], "E1", SUB3, JORDAN, st[2], st[3], Absent) : st \in Standings}
    \cup {Record(2025, "E2", SUB3, JORDAN, 1, 50, Absent),
          Record(2025, "E1", EVERYONE, XTEP, 1, 50, Absent)}

RoundingFile ==
    <<Record(2021, "E1", SUB3, XTEP, 4, 6, Absent),
      Record(2021, "E2", SUB3, XTEP, 4, 8, Absent),
      Record(2025, "E1", SUB3, XTEP, 4, 7, Absent),
      Record(2025, "E1", SUB3, JORDAN, 1, 50, Absent)>>

CallFiles == FilesOver(CallRecords) \cup {GoodFile(RoundingFile)}

\* The brand lists the report is asked for.
CallSelections ==
    {<<>>, <<JORDAN>>, <<JORDAN, XTEP>>, <<XTEP, JORDAN>>, default_brands}

\* The state after line 78 of a run that loaded the file.
InitCalls ==
    /\ file \in CallFiles
    /\ cache = <<LoadBody(file)>>
    /\ load_count = 1
    /\ df = LoadBody(file).df
    /\ brands_info = LoadBody(file).brands_info
    /\ page = "none"
    /\ selected_brands = <<>>
    /\ cohort_filter = ALL
    /\ event_filter = ALL
    /\ outcome = "none"
    /\ radar_data = <<>>
    /\ report = <<>>
    /\ analysis = <<>>
    /\ metrics = <<>>
    /\ texts = <<>>
    /\ browse = <<>>
    /\ filtered_df = <<>>
    /\ store = Start(LoadBody(file))
    /\ call = "none"

NextCalls ==
    \/ \E sel \in CallSelections, cf \in CohortOptions, ef \in EventOptions(df) :
           CallComparisonReport(sel, cf, ef)
    \/ \E brand \in {JORDAN, XTEP} : CallBrandAnalysis(brand)
    \/ \E change \in TrendsAtHand : CallTrendIcon(change)

SpecCalls == InitCalls /\ [][NextCalls]_vars

----------------------------------------------------------------------------
(* Properties of the comparison page, checked under SpecCompare *)

\* A run of the comparison page with two brands or more selected.
Compared == page = "compare" /\ Len(selected_brands) >= 2

\* The rows of a brand in the filtered_df of the last run, which are the
\* rows the radar loop of lines 716-735 is written to read.
RadarRows(brand) == WhereEq(filtered_df, "brand", brand)

\* The rows of a brand that generate_comparison_report reads for the
\* widget values of the last run or call.
ReportRows(brand) ==
    WhereEq(FilterCohortEvent(df, cohort_filter, event_filter), "brand", brand)

\* The report that line 761 asks for with the widget values of the last run.
ReportAsked ==
    generate_comparison_report(selected_brands, df, cohort_filter, event_filter,
                               brands_info)

\* The brands of a list of entries.
BrandsIn(entries) == {entries[i].brand : i \in 1..Len(entries)}

\* 0 <= x <= 100
InScoreRange(x) == ~IsNaN(x) /\ ~Lt(x, Whole(0)) /\ ~Gt(x, Whole(100))

\* C1: after a run of the comparison page, a selected brand with exactly
\* one row under the filter has an entry in radar_data whose stability
\* score is 100.
C1_SingleSampleStability ==
    Compared =>
        \A b \in Range(selected_brands) :
            Len(RadarRows(b)) = 1 =>
                \E i \in 1..Len(radar_data) :
                    /\ radar_data[i].brand = b
                    /\ Eq(radar_data[i].stability, Whole(100))

\* C2: after a run of the comparison page, every selected brand with a row
\* under the filter has its five radar scores, each of them in [0, 100].
C2_ScoreBounds ==
    Compared =>
        \A b \in Range(selected_brands) :
            RadarRows(b) # <<>> =>
                \E i \in 1..Len(radar_data) :
                    /\ radar_data[i].brand = b
                    /\ InScoreRange(radar_data[i].avg_rank)
                    /\ InScoreRange(radar_data[i].share)
                    /\ InScoreRange(radar_data[i].best)
                    /\ InScoreRange(radar_data[i].stability)
                    /\ InScoreRange(radar_data[i].coverage)

\* The selected brands that have a row under the cohort and event filter.
BrandsWithRows == {b \in Range(selected_brands) : ReportRows(b) # <<>>}

\* C6: the report and radar_data hold one entry for each selected brand
\* that has a row under the filter and none for the others.
C6_ZeroRowBrandsSkipped ==
    Compared =>
        /\ BrandsIn(ReportAsked) = BrandsWithRows
        /\ Len(ReportAsked) = Cardinality(BrandsWithRows)
        /\ BrandsIn(radar_data) = BrandsWithRows
        /\ Len(radar_data) = Cardinality(BrandsWithRows)

\* C16: radar_data holds the brands of the report, and for each of them
\* the two paths read the same rows.
C16_RadarAndReportAgree ==
    Compared =>
        /\ BrandsIn(radar_data) = BrandsIn(ReportAsked)
        /\ \A b \in Range(selected_brands) : RadarRows(b) = ReportRows(b)

\* The filter of lines 665-669 and the filter of lines 135-143 keep the
\* same rows of every selected brand.
SameRowsBothPaths ==
    Compared => \A b \in Range(selected_brands) : RadarRows(b) = ReportRows(b)

----------------------------------------------------------------------------
(* Properties of the helper functions, checked under SpecCalls *)

\* generate_comparison_report has been applied.
Reported == call = "generate_comparison_report"

\* generate_brand_analysis has been applied.
Analysed == call = "generate_brand_analysis"

\* C4: a brand whose rows cover fewer than two years gets no delta of 0
\* as rank_trend or share_trend.
C4_NoZeroDeltaForOneYear ==
    Reported =>
        \A i \in 1..Len(report) :
            NUnique(ReportRows(report[i].brand), "year") < 2 =>
                /\ report[i].rank_trend # Whole(0)
                /\ report[i].share_trend # Whole(0)

\* The rows generate_brand_analysis was given.
AnalysedRows == WhereEq(df, "brand", selected_brands[1])

\* C5: an entry of the analysis is of a cohort whose rows span two years
\* or more, and has first_year < last_year.
C5_TrendNeedsTwoYears ==
    Analysed =>
        \A i \in 1..Len(analysis) :
            /\ NUnique(WhereEq(AnalysedRows, "cohort", analysis[i].cohort), "year") >= 2
            /\ analysis[i].first_year < analysis[i].last_year

\* The report holds one entry for each brand asked for that has a row
\* under the filter, and none for the others.
ReportSkipsZeroRowBrands ==
    Reported =>
        /\ BrandsIn(report) = BrandsWithRows
        /\ Len(report) = Cardinality(BrandsWithRows)

\* C7: the report is in increasing avg_rank, so its first entry has the
\* least and its last entry the largest average rank.
C7_SortedByAvgRank ==
    Reported =>
        /\ \A i, j \in 1..Len(report) :
            i < j => ~Gt(report[i].avg_rank, report[j].avg_rank)
        /\ \A i \in 1..Len(report) :
            /\ ~Lt(report[i].avg_rank, report[1].avg_rank)
            /\ ~Gt(report[i].avg_rank, report[Len(report)].avg_rank)

\* C7 happens: the brand asked for second is reported first, with a
\* smaller average rank.
C7_Witness ==
    /\ Reported
    /\ Len(report) = 2
    /\ selected_brands[1] = report[2].brand
    /\ selected_brands[2] = report[1].brand
    /\ Lt(report[1].avg_rank, report[2].avg_rank)

\* The direction a delta stands for: up above zero, down below, else flat.
DirectionOf(delta) ==
    IF Gt(delta, Whole(0)) THEN "up"
    ELSE IF Lt(delta, Whole(0)) THEN "down" ELSE "flat"

\* The direction a rendered word states; "growth" is the share's "up".
DirectionSaid(word) == IF word = "growth" THEN "up" ELSE word

\* C15: every place that words a delta says up for a delta above zero,
\* down for one below and flat for zero: get_trend_icon, the rank-trend
\* column and the share wording of the summary on the items of the report,
\* and the two wordings of the analysis boxes on the items of the analysis.
C15_ZeroIsFlat ==
    /\ \A i \in 1..Len(texts) :
           DirectionSaid(texts[i].trend_text) = DirectionOf(texts[i].change)
    /\ \A i \in 1..Len(report) :
           /\ DirectionSaid(RankTrendColumn(report[i].rank_trend))
                  = DirectionOf(report[i].rank_trend)
           /\ DirectionSaid(SummaryShareWord(report[i].share_trend))
                  = DirectionOf(report[i].share_trend)
    /\ \A i \in 1..Len(analysis) :
           /\ DirectionSaid(BoxRankWord(analysis[i].rank_change))
                  = DirectionOf(Whole(analysis[i].rank_change))
           /\ DirectionSaid(BoxShareWord(analysis[i].share_change))
                  = DirectionOf(analysis[i].share_change)

\* get_trend_icon and the rank-trend column do word the three directions.
ThreeWayWordsRight ==
    /\ \A i \in 1..Len(texts) :
           DirectionSaid(texts[i].trend_text) = DirectionOf(texts[i].change)
    /\ \A i \in 1..Len(report) :
           DirectionSaid(RankTrendColumn(report[i].rank_trend))
               = DirectionOf(report[i].rank_trend)

\* The share of 0.07 is not 7 percent in doubles, and the trend of a share
\* whose yearly means are 7 and 0.07 * 100 is above zero.
RoundingShows ==
    (Reported /\ file = GoodFile(RoundingFile) /\ cohort_filter = ALL
              /\ event_filter = ALL) =>
        \A i \in 1..Len(report) :
            report[i].brand = XTEP =>
                /\ Gt(report[i].share_trend, Whole(0))
                /\ report[i].share_trend = Float(1, <<1>>, -50)

----------------------------------------------------------------------------
(* Properties of the Jordan page, checked under SpecJordan *)

\* C3: no run raises, whatever the page and the filter values.
C3_RenderNeverRaises == outcome \in {"none", "ok"}

\* Among the rows of d holding rank v, the one of the earliest year and,
\* among those of that year, the first in the order of d.
EarliestFirst(d, v) ==
    LET tied == WhereEq(d, "rank", v)
    IN  WhereEq(tied, "year", MinOf(Col(tied, "year")))[1]

\* The rows of the Jordan page's last run behind the metric cards.
MetricRows == JordanFiltered(df, event_filter, cohort_filter)

\* The rows behind the analysis entry of a cohort.
CohortRows(cohort) == WhereEq(WhereEq(df, "brand", JORDAN), "cohort", cohort)

\* A run of the Jordan page that showed its metric cards.
CardsShown == page = "jordan" /\ metrics # <<>>

\* The best and worst records of every entry of items are the earliest and
\* first among the tied rows.
EntriesEarliestFirst(items) ==
    \A i \in 1..Len(items) :
        LET rows == CohortRows(items[i].cohort)
            best == EarliestFirst(rows, MinOf(Col(rows, "rank")))
            worst == EarliestFirst(rows, MaxOf(Col(rows, "rank")))
        IN  /\ items[i].best_year = best.year
            /\ items[i].best_event = best.event
            /\ items[i].worst_year = worst.year
            /\ items[i].worst_event = worst.event

\* C14: among rows tied for the best or the worst rank, the record shown is
\* the one of the earliest year and, within that year, the first in input
\* order, in the metric cards of the Jordan page and in every entry that
\* generate_brand_analysis can return for the Jordan rows.
C14_TieBreakEarliestFirst ==
    CardsShown =>
        /\ metrics[1].best_record = EarliestFirst(MetricRows, metrics[1].best_rank)
        /\ metrics[1].worst_record = EarliestFirst(MetricRows, metrics[1].worst_rank)
        /\ \A items \in generate_brand_analysis(WhereEq(df, "brand", JORDAN)) :
               EntriesEarliestFirst(items)

\* The entries of generate_brand_analysis do name the earliest year among
\* the tied rows (idxmin and idxmax on the rows sorted by year).
AnalysisEarliestYear ==
    CardsShown =>
        \A items \in generate_brand_analysis(WhereEq(df, "brand", JORDAN)) :
            \A i \in 1..Len(items) :
                LET rows == CohortRows(items[i].cohort)
                IN  /\ items[i].best_year =
                           EarliestFirst(rows, MinOf(Col(rows, "rank"))).year
                    /\ items[i].worst_year =
                           EarliestFirst(rows, MaxOf(Col(rows, "rank"))).year

----------------------------------------------------------------------------
(* Properties of the whole application, checked under Spec *)

\* The rows of df whose brand brands_info does not know.
UnknownBrandRows ==
    {i \in 1..Len(df) : df[i].brand \notin DOMAIN brands_info}

\* The exceptions of the three statements that read df['brand_type'].
BrandTypeKeyErrors == {"KeyError@233", "KeyError@505", "KeyError@847"}

\* C8: a row of a brand that brands_info does not know has the brand type
\* "other" in the frame that the type filters and groupings read, and no
\* run on such a frame fails to find the brand type.
C8_UnknownBrandIsOther ==
    (page # "none" /\ UnknownBrandRows # {}) =>
        /\ outcome \notin BrandTypeKeyErrors
        /\ \A i \in UnknownBrandRows : df[i].brand_type = "other"

\* C9: the body of load_data runs at most once, and every run gets from
\* load_data the value the run before it got.
C9_LoadAtMostOnce ==
    /\ [](load_count <= 1)
    /\ [][(page # "none" /\ page' # "none")
             => (df' = df /\ brands_info' = brands_info)]_vars

\* Every run in which load_data returns gets the value the first such run
\* got, whatever the file holds by then.
LoadedValueStays ==
    [][(page # "none" /\ page' # "none")
          => (df' = df /\ brands_info' = brands_info)]_vars

\* C10: after every run df and brands_info hold what load_data returned,
\* and every other variable of the run is bound to an object of its own:
\* the selections, the renaming, the rounding and the type mapping acted
\* on other objects than the two globals.
C10_SourceUnchanged ==
    page # "none" =>
        /\ df = cache[1].df
        /\ brands_info = cache[1].brands_info
        /\ \A n \in DOMAIN store.names \ {"df", "brands_info"} :
               store.names[n] \notin {store.names["df"], store.names["brands_info"]}

\* A run of the data-browse page that reached its table.
Browsed == page = "browse" /\ outcome = "ok"

\* C10 happens: the data-browse page has filtered rows of df away, and in
\* display_df a column is renamed, a brand type is mapped to its label and
\* a share is rounded to another double, while df is as it was loaded.
C10_Witness ==
    /\ Browsed
    /\ Len(filtered_df) < Len(df)
    /\ \E i \in 1..Len(filtered_df) :
           /\ Value(store, "display_df")[i]["Share(%)"] # filtered_df[i].share_pct
           /\ Value(store, "display_df")[i]["Brand type"] # filtered_df[i].brand_type
    /\ df = cache[1].df

----------------------------------------------------------------------------
(* Properties of the filters *)

\* df under the event test alone and under the cohort test alone.
EventOnly(d, ef) == IF ef = ALL THEN d ELSE WhereEq(d, "event", ef)
CohortOnly(d, cf) == IF cf = ALL THEN d ELSE WhereEq(d, "cohort", cf)

\* C11: on the data-browse page an empty year, event, cohort or brand-type
\* multiselect leaves no row in the table; on the comparison, Jordan and
\* category pages and in generate_comparison_report the "all" entry of the
\* cohort (event) selectbox lets through every row that the other
\* selectbox lets through.  Checked under Spec.
C11_EmptyIsNotUnrestricted ==
    /\ (Browsed /\ {} \in {browse.years, browse.events, browse.cohorts, browse.types})
           => filtered_df = <<>>
    /\ (Compared /\ cohort_filter = ALL) =>
           /\ filtered_df
                  = WhereIn(EventOnly(df, event_filter), "brand", Range(selected_brands))
           /\ \A i \in 1..Len(ReportAsked) :
                  ReportAsked[i].data_points
                      = Len(WhereEq(EventOnly(df, event_filter), "brand",
                                    ReportAsked[i].brand))
    /\ (Compared /\ event_filter = ALL) =>
           /\ filtered_df
                  = WhereIn(CohortOnly(df, cohort_filter), "brand", Range(selected_brands))
           /\ \A i \in 1..Len(ReportAsked) :
                  ReportAsked[i].data_points
                      = Len(WhereEq(CohortOnly(df, cohort_filter), "brand",
                                    ReportAsked[i].brand))
    /\ (CardsShown /\ cohort_filter = ALL /\ event_filter = ALL) =>
           metrics[1].avg_rank = Mean(Col(WhereEq(df, "brand", JORDAN), "rank"))
    /\ (page = "jordan" /\ cohort_filter = ALL) =>
           Value(store, "jordan_df")
               = WhereEq(EventOnly(df, event_filter), "brand", JORDAN)
    /\ (page = "jordan" /\ event_filter = ALL) =>
           Value(store, "jordan_df")
               = WhereEq(CohortOnly(df, cohort_filter), "brand", JORDAN)
    /\ (page = "type" /\ cohort_filter = ALL) =>
           filtered_df = EventOnly(df, event_filter)
    /\ (page = "type" /\ event_filter = ALL) =>
           filtered_df = CohortOnly(df, cohort_filter)

\* C11 happens: the brand-type multiselect is emptied while the other three
\* hold every value of df, and the table of a df with rows is empty.
C11_Witness ==
    /\ Browsed
    /\ df # <<>>
    /\ browse.types = {}
    /\ browse.years = Range(Col(df, "year"))
    /\ browse.events = Range(Col(df, "event"))
    /\ browse.cohorts = Range(Col(df, "cohort"))
    /\ browse.search = NoSearch
    /\ filtered_df = <<>>

\* The "all" entry happens: the comparison page keeps, with the cohort at
\* "all" and an event chosen, rows of both cohorts.
SentinelShows ==
    /\ Compared
    /\ cohort_filter = ALL /\ event_filter # ALL
    /\ filtered_df # <<>>
    /\ Len(filtered_df) < Len(df)

\* C12: with the five widgets of the data-browse page at their defaults
\* the table holds every row of df.  Checked under SpecBrowse.
C12_DefaultsShowAll ==
    (Browsed /\ browse = BrowseDefaults(df)) => filtered_df = df

\* The five tests of the data-browse page on a row, one by one.
YearTest(r, w) == r.year \in w.years
EventTest(r, w) == r.event \in w.events
CohortTest(r, w) == r.cohort \in w.cohorts
TypeTest(r, w) == r.brand_type \in w.types
SearchTest(r, w) == ~Truthy(w.search) \/ SearchKeeps(w.search, r.brand)

\* The rows of d passing all five tests of w at once.
AllAtOnce(d, w) ==
    SelectSeq(d, LAMBDA r : /\ YearTest(r, w) /\ EventTest(r, w) /\ CohortTest(r, w)
                            /\ TypeTest(r, w) /\ SearchTest(r, w))

\* The rows of d left by the five tests of w applied one after the other,
\* the search first.
OneByOne(d, w) ==
    LET a == SelectSeq(d, LAMBDA r : SearchTest(r, w))
        b == SelectSeq(a, LAMBDA r : TypeTest(r, w))
        c == SelectSeq(b, LAMBDA r : CohortTest(r, w))
        e == SelectSeq(c, LAMBDA r : EventTest(r, w))
    IN  SelectSeq(e, LAMBDA r : YearTest(r, w))

\* s holds rows of d in the order of d.
RECURSIVE IsSubsequence(_, _)
IsSubsequence(s, d) ==
    IF s = <<>> THEN TRUE
    ELSE IF d = <<>> THEN FALSE
    ELSE IF Head(s) = Head(d) THEN IsSubsequence(Tail(s), Tail(d))
    ELSE IsSubsequence(s, Tail(d))

\* What lines 843-853 make of the frame d under the widgets w, typed
\* telling whether d has the column brand_type: how the lines end, as
\* BrowseOutcome has it, and the rows of filtered_df when they end well.
FilterResult(d, typed, w) ==
    LET how == IF ~typed THEN "KeyError@847"
               ELSE IF SearchRaises(w.search) THEN "error@853"
               ELSE "ok"
    IN  [outcome |-> how,
         rows |-> IF how = "ok" THEN BrowseFiltered(d, w) ELSE <<>>]

\* The result res filtered again under the widgets w.  A frame made by
\* boolean indexing has the columns of the frame it is made of, also when
\* it has no row.
ThenFilter(res, w) ==
    IF res.outcome # "ok" THEN res ELSE FilterResult(res.rows, TRUE, w)

\* The rows of d passing the tests of v and of w together, in the order of
\* d; KeyError when d has no column brand_type, re.error when either
\* search text does not compile.
BothAtOnce(d, typed, v, w) ==
    LET how == IF ~typed THEN "KeyError@847"
               ELSE IF SearchRaises(v.search) \/ SearchRaises(w.search)
                    THEN "error@853"
               ELSE "ok"
        passv == Range(AllAtOnce(d, v))
        passw == Range(AllAtOnce(d, w))
    IN  [outcome |-> how,
         rows |-> IF how = "ok"
                  THEN SelectSeq(d, LAMBDA r : r \in passv /\ r \in passw)
                  ELSE <<>>]

\* The second settings tried: one click away from the widgets of the last
\* run, or one click away from the defaults.
SecondSettings ==
    BrowseClicks(browse, df) \cup BrowseClicks(BrowseDefaults(df), df)

\* The brand selections tried on the comparison page's filter.
SelectionsTried == {<<JORDAN>>, <<JORDAN, XTEP>>, <<NIKE, XTEP>>, default_brands}

\* C13: a run of the data-browse page ends with KeyError when df has no
\* column brand_type, with re.error when its search text does not
\* compile, and else its table holds the rows passing all its tests at
\* once, which are the rows left by the tests one after the other in
\* another order.  Filtering df by the widgets of the run and the result
\* by a second setting gives what the two settings give together, and so
\* does filtering in the other order: the same rows in the order of df,
\* or the same exception in both orders.  The same for the brand, cohort
\* and event steps of the comparison page, which read df alone and are
\* tried once for each df, in the run that arrives on the data-browse page.
\* Checked under SpecBrowse.
C13_FilterConjunctivity ==
    page = "browse" =>
        LET typed == HasColumn(df, "brand_type")
            first == FilterResult(df, typed, browse)
        IN  /\ outcome = first.outcome
            /\ Browsed =>
                   /\ filtered_df = first.rows
                   /\ filtered_df = AllAtOnce(df, browse)
                   /\ filtered_df = OneByOne(df, browse)
                   /\ IsSubsequence(filtered_df, df)
                   /\ ThenFilter(first, browse) = first
            /\ \A w \in SecondSettings :
                   LET both == BothAtOnce(df, typed, browse, w)
                   IN  /\ ThenFilter(first, w) = both
                       /\ ThenFilter(FilterResult(df, typed, w), browse) = both
                       /\ both.outcome = "ok"
                              => both.rows = AllAtOnce(first.rows, w)
            /\ browse = BrowseDefaults(df) =>
                   \A sel \in SelectionsTried, cf \in CohortOptions,
                      ef \in EventOptions(df) :
                       LET once == CompareFiltered(df, sel, cf, ef)
                       IN  /\ once = SelectSeq(df, LAMBDA r :
                                          /\ r.brand \in Range(sel)
                                          /\ (cf = ALL \/ r.cohort = cf)
                                          /\ (ef = ALL \/ r.event = ef))
                           /\ CompareFiltered(once, sel, cf, ef) = once

\* C13 happens: a search text and a narrowed year multiselect are both in
\* force on a df of two rows; each alone keeps the row the other drops, and
\* the table is empty.
C13_Witness ==
    /\ Browsed
    /\ Truthy(browse.search)
    /\ browse.years # Range(Col(df, "year"))
    /\ Len(df) = 2
    /\ filtered_df = <<>>
    /\ \E i \in 1..Len(df) :
           /\ SearchTest(df[i], browse) /\ TypeTest(df[i], browse)
           /\ ~YearTest(df[i], browse)
    /\ \E i \in 1..Len(df) :
           /\ YearTest(df[i], browse) /\ TypeTest(df[i], browse)
           /\ ~SearchTest(df[i], browse)

====
